---- MODULE Spec2Model ----
(***************************************************************************)
(* CSpxResourceManager (source/core/factory/resource_manager.cpp): an      *)
(* ordered list of module factories, built once by the constructor, and    *)
(* CreateObject, which walks the list and returns the first object any     *)
(* factory can create.                                                     *)
(***************************************************************************)
EXTENDS Naturals, Sequences, FiniteSets

\* ------------------------------------------------------------------ bounds

\* Resource managers that may be constructed (the second one is there to
\* compare two constructions under one platform configuration).
MaxManagers == 2
\* Threads calling CreateObject concurrently.
NumThreads == 2
\* Longest hand-built factory list of SpecList.
MaxLen == 3

Managers == 1..MaxManagers
Threads == 1..NumThreads

\* ------------------------------------------------------- names and values

\* The three branches of the #ifdef in the constructor.
Platforms == {"__linux__", "__MACH__", "default"}
\* The configuration of SpecList: no constructor runs, the lists are built
\* by hand from stub factories.
StubPlatform == "stub"

\* The names of the stub factories of SpecList.
StubNames == <<"MockFactory", "RealFactory">>

\* (className, interfaceName) pairs a caller may ask for.
Requests == {<<"A", "IA">>, <<"B", "IB">>, <<"C", "IC">>}
\* Pairs some module may know how to build; nobody builds C/IC.
Supportable == {<<"A", "IA">>, <<"B", "IB">>}
\* The concurrent specification: one pair modules may build, and the
\* requests for it and for the pair nobody builds.
SupportableMT == {<<"A", "IA">>}
RequestsMT == {<<"A", "IA">>, <<"C", "IC">>}

\* The null object CreateObject returns when nothing was created.
nullptr == [factory |-> 0, className |-> "", interfaceName |-> ""]

VARIABLES
    platform,           \* the platform configuration the program is built for
    loaded,             \* module name -> whether its library can be loaded
    supports,           \* module name -> the pairs the loaded module builds
    s_modules,          \* CSpxModuleFactory's memo: handle h is s_modules[h]
    constructed,        \* manager -> its constructor has run
    m_moduleFactories,  \* manager -> its ordered list of factory handles
    pc,                 \* thread -> "idle" | "loop" | "done"
    rm,                 \* thread -> the manager CreateObject was called on
    req,                \* thread -> <<className, interfaceName>> of the call
    it,                 \* thread -> position of the range-for iterator
    invoked,            \* thread -> list positions whose factory was invoked
    obj                 \* thread -> the value the call returned

envVars == <<platform, loaded, supports>>
callVars == <<pc, rm, req, it, invoked, obj>>
vars == <<platform, loaded, supports, s_modules, constructed,
          m_moduleFactories, pc, rm, req, it, invoked, obj>>

\* ------------------------------------------------------------ constructor

\* The mock module's name on each platform (first push_back of each branch).
MockName(p) ==
    IF p = "__linux__" THEN "libcarbon-mock.so"
    ELSE IF p = "__MACH__" THEN "libcarbon-mock.dylib"
    ELSE "carbon-mock.dll"

\* Mutant of ModuleNames: the mock module is added after the core module.
ModuleNamesMockLast(p) ==
    IF p = "__linux__" THEN
        << "libMicrosoft.CognitiveServices.Speech.extension.pma.so",
           "libMicrosoft.CognitiveServices.Speech.extension.kws.so",
           "carbon",
           "libcarbon-mock.so" >>
    ELSE IF p = "__MACH__" THEN
        << "libMicrosoft.CognitiveServices.Speech.extension.pma.dylib",
           "libMicrosoft.CognitiveServices.Speech.extension.kws.dylib",
           "carbon",
           "libcarbon-mock.dylib" >>
    ELSE
        << "Microsoft.CognitiveServices.Speech.extension.pma.dll",
           "Microsoft.CognitiveServices.Speech.extension.kws.dll",
           "carbon",
           "carbon-unidec.dll",
           "carbon-mock.dll" >>

\* Mutant of ModuleNames: the core module is added before the kws extension.
ModuleNamesCarbonEarly(p) ==
    IF p = "__linux__" THEN
        << "libcarbon-mock.so",
           "libMicrosoft.CognitiveServices.Speech.extension.pma.so",
           "carbon",
           "libMicrosoft.CognitiveServices.Speech.extension.kws.so" >>
    ELSE IF p = "__MACH__" THEN
        << "libcarbon-mock.dylib",
           "libMicrosoft.CognitiveServices.Speech.extension.pma.dylib",
           "carbon",
           "libMicrosoft.CognitiveServices.Speech.extension.kws.dylib" >>
    ELSE
        << "carbon-mock.dll",
           "Microsoft.CognitiveServices.Speech.extension.pma.dll",
           "carbon",
           "Microsoft.CognitiveServices.Speech.extension.kws.dll",
           "carbon-unidec.dll" >>

\* The names the constructor passes to CSpxModuleFactory::Get, in the order
\* of its push_back calls.
ModuleNames(p) ==
    IF p = "__linux__" THEN
        << "libcarbon-mock.so",
           "libMicrosoft.CognitiveServices.Speech.extension.pma.so",
           "libMicrosoft.CognitiveServices.Speech.extension.kws.so",
           "carbon" >>
    ELSE IF p = "__MACH__" THEN
        << "libcarbon-mock.dylib",
           "libMicrosoft.CognitiveServices.Speech.extension.pma.dylib",
           "libMicrosoft.CognitiveServices.Speech.extension.kws.dylib",
           "carbon" >>
    ELSE
        << "carbon-mock.dll",
           "Microsoft.CognitiveServices.Speech.extension.pma.dll",
           "Microsoft.CognitiveServices.Speech.extension.kws.dll",
           "carbon",
           "carbon-unidec.dll" >>

\* The module names of a configuration.
NamesOf(p) ==
    IF p = StubPlatform
    THEN {StubNames[i] : i \in 1..Len(StubNames)}
    ELSE {ModuleNames(p)[i] : i \in 1..Len(ModuleNames(p))}

\* CSpxModuleFactory::Get(name): resolution is memoized per distinct name.
\* The memo after the call ...
GetMemo(memo, name) ==
    IF \E h \in 1..Len(memo) : memo[h] = name THEN memo ELSE Append(memo, name)

\* ... and the handle the call returns.
GetHandle(memo, name) ==
    CHOOSE h \in 1..Len(GetMemo(memo, name)) : GetMemo(memo, name)[h] = name

\* The constructor's push_back sequence over the first n names: the memo and
\* the list it leaves behind.
RECURSIVE PushBackAll(_, _, _)
PushBackAll(memo, names, n) ==
    IF n = 0 THEN [memo |-> memo, list |-> <<>>]
    ELSE LET before == PushBackAll(memo, names, n - 1)
         IN  [memo |-> GetMemo(before.memo, names[n]),
              list |-> Append(before.list, GetHandle(before.memo, names[n]))]

\* Mutant of Constructor: a module is added only when Get loaded it anew.
ConstructorNewOnly(m) ==
    /\ platform \in Platforms
    /\ ~constructed[m]
    /\ LET names == ModuleNames(platform)
           built == PushBackAll(s_modules, names, Len(names))
           fresh == SelectSeq(built.list, LAMBDA h : h > Len(s_modules))
       IN  /\ s_modules' = built.memo
           /\ m_moduleFactories' = [m_moduleFactories EXCEPT ![m] = fresh]
    /\ constructed' = [constructed EXCEPT ![m] = TRUE]
    /\ UNCHANGED <<envVars, callVars>>

\* CSpxResourceManager::CSpxResourceManager()
Constructor(m) ==
    /\ platform \in Platforms
    /\ ~constructed[m]
    /\ LET names == ModuleNames(platform)
           built == PushBackAll(s_modules, names, Len(names))
       IN  /\ s_modules' = built.memo
           /\ m_moduleFactories' = [m_moduleFactories EXCEPT ![m] = built.list]
    /\ constructed' = [constructed EXCEPT ![m] = TRUE]
    /\ UNCHANGED <<envVars, callVars>>

\* ------------------------------------------------------------ CreateObject

\* CSpxModuleFactory::CreateObject: a module that failed to load, or that
\* does not know the pair, yields the null object.
attemptCreate(h, r) ==
    IF loaded[s_modules[h]] /\ r \in supports[s_modules[h]]
    THEN [factory |-> h, className |-> r[1], interfaceName |-> r[2]]
    ELSE nullptr

\* Entry of CSpxResourceManager::CreateObject(className, interfaceName).
CallCreateObject(t, m, r) ==
    /\ pc[t] = "idle"
    /\ constructed[m]
    /\ pc' = [pc EXCEPT ![t] = "loop"]
    /\ rm' = [rm EXCEPT ![t] = m]
    /\ req' = [req EXCEPT ![t] = r]
    /\ it' = [it EXCEPT ![t] = 1]
    /\ invoked' = [invoked EXCEPT ![t] = <<>>]
    /\ obj' = [obj EXCEPT ![t] = nullptr]
    /\ UNCHANGED <<envVars, s_modules, constructed, m_moduleFactories>>

\* Mutants of LoopStep.  Each is LoopStep with one plausible slip.

\* The loop does not return at the first object: the last factory that can
\* create the object wins.
LoopStepLastWins(t) ==
    /\ pc[t] = "loop"
    /\ LET list == m_moduleFactories[rm[t]]
       IN  IF it[t] > Len(list)
           THEN /\ pc' = [pc EXCEPT ![t] = "done"]
                /\ UNCHANGED <<it, invoked, obj>>
           ELSE LET o == attemptCreate(list[it[t]], req[t])
                IN  /\ invoked' = [invoked EXCEPT ![t] = Append(@, it[t])]
                    /\ it' = [it EXCEPT ![t] = @ + 1]
                    /\ obj' = [obj EXCEPT ![t] = IF o # nullptr THEN o ELSE @]
                    /\ UNCHANGED pc
    /\ UNCHANGED <<envVars, s_modules, constructed, m_moduleFactories, rm, req>>

\* The factory is asked once for the test and once more for the value.
LoopStepAsksTwice(t) ==
    /\ pc[t] = "loop"
    /\ LET list == m_moduleFactories[rm[t]]
       IN  IF it[t] > Len(list)
           THEN /\ pc' = [pc EXCEPT ![t] = "done"]
                /\ obj' = [obj EXCEPT ![t] = nullptr]
                /\ UNCHANGED <<it, invoked>>
           ELSE LET o == attemptCreate(list[it[t]], req[t])
                IN  IF o # nullptr
                    THEN /\ invoked' = [invoked EXCEPT ![t] = Append(Append(@, it[t]), it[t])]
                         /\ obj' = [obj EXCEPT ![t] = o]
                         /\ pc' = [pc EXCEPT ![t] = "done"]
                         /\ UNCHANGED it
                    ELSE /\ invoked' = [invoked EXCEPT ![t] = Append(@, it[t])]
                         /\ it' = [it EXCEPT ![t] = @ + 1]
                         /\ UNCHANGED <<pc, obj>>
    /\ UNCHANGED <<envVars, s_modules, constructed, m_moduleFactories, rm, req>>

\* The loop stops one entry short of the end of the list.
LoopStepOneShort(t) ==
    /\ pc[t] = "loop"
    /\ LET list == m_moduleFactories[rm[t]]
       IN  IF it[t] >= Len(list)
           THEN /\ pc' = [pc EXCEPT ![t] = "done"]
                /\ obj' = [obj EXCEPT ![t] = nullptr]
                /\ UNCHANGED <<it, invoked>>
           ELSE LET o == attemptCreate(list[it[t]], req[t])
                IN  /\ invoked' = [invoked EXCEPT ![t] = Append(@, it[t])]
                    /\ IF o # nullptr
                       THEN /\ obj' = [obj EXCEPT ![t] = o]
                            /\ pc' = [pc EXCEPT ![t] = "done"]
                            /\ UNCHANGED it
                       ELSE /\ it' = [it EXCEPT ![t] = @ + 1]
                            /\ UNCHANGED <<pc, obj>>
    /\ UNCHANGED <<envVars, s_modules, constructed, m_moduleFactories, rm, req>>

\* The first factory that creates nothing ends the search.
LoopStepStopsAtNull(t) ==
    /\ pc[t] = "loop"
    /\ LET list == m_moduleFactories[rm[t]]
       IN  IF it[t] > Len(list)
           THEN /\ pc' = [pc EXCEPT ![t] = "done"]
                /\ obj' = [obj EXCEPT ![t] = nullptr]
                /\ UNCHANGED <<it, invoked>>
           ELSE LET o == attemptCreate(list[it[t]], req[t])
                IN  /\ invoked' = [invoked EXCEPT ![t] = Append(@, it[t])]
                    /\ obj' = [obj EXCEPT ![t] = o]
                    /\ pc' = [pc EXCEPT ![t] = "done"]
                    /\ UNCHANGED it
    /\ UNCHANGED <<envVars, s_modules, constructed, m_moduleFactories, rm, req>>

\* A factory that created nothing is erased from the list.
LoopStepPrunes(t) ==
    /\ pc[t] = "loop"
    /\ LET list == m_moduleFactories[rm[t]]
       IN  IF it[t] > Len(list)
           THEN /\ pc' = [pc EXCEPT ![t] = "done"]
                /\ obj' = [obj EXCEPT ![t] = nullptr]
                /\ UNCHANGED <<it, invoked, m_moduleFactories>>
           ELSE LET o == attemptCreate(list[it[t]], req[t])
                IN  /\ invoked' = [invoked EXCEPT ![t] = Append(@, it[t])]
                    /\ IF o # nullptr
                       THEN /\ obj' = [obj EXCEPT ![t] = o]
                            /\ pc' = [pc EXCEPT ![t] = "done"]
                            /\ UNCHANGED <<it, m_moduleFactories>>
                       ELSE /\ m_moduleFactories' =
                                 [m_moduleFactories EXCEPT ![rm[t]] =
                                     SubSeq(list, 1, it[t] - 1) \o
                                     SubSeq(list, it[t] + 1, Len(list))]
                            /\ UNCHANGED <<it, pc, obj>>
    /\ UNCHANGED <<envVars, s_modules, constructed, rm, req>>

\* The factory that created the object is moved to the front of the list.
LoopStepMoveToFront(t) ==
    /\ pc[t] = "loop"
    /\ LET list == m_moduleFactories[rm[t]]
       IN  IF it[t] > Len(list)
           THEN /\ pc' = [pc EXCEPT ![t] = "done"]
                /\ obj' = [obj EXCEPT ![t] = nullptr]
                /\ UNCHANGED <<it, invoked, m_moduleFactories>>
           ELSE LET o == attemptCreate(list[it[t]], req[t])
                IN  /\ invoked' = [invoked EXCEPT ![t] = Append(@, it[t])]
                    /\ IF o # nullptr
                       THEN /\ obj' = [obj EXCEPT ![t] = o]
                            /\ pc' = [pc EXCEPT ![t] = "done"]
                            /\ m_moduleFactories' =
                                 [m_moduleFactories EXCEPT ![rm[t]] =
                                     <<list[it[t]]>> \o
                                     SubSeq(list, 1, it[t] - 1) \o
                                     SubSeq(list, it[t] + 1, Len(list))]
                            /\ UNCHANGED it
                       ELSE /\ it' = [it EXCEPT ![t] = @ + 1]
                            /\ UNCHANGED <<pc, obj, m_moduleFactories>>
    /\ UNCHANGED <<envVars, s_modules, constructed, rm, req>>

\* The iterator is a member shared by all callers instead of a local.
LoopStepSharedIterator(t) ==
    /\ pc[t] = "loop"
    /\ LET list == m_moduleFactories[rm[t]]
       IN  IF it[t] > Len(list)
           THEN /\ pc' = [pc EXCEPT ![t] = "done"]
                /\ obj' = [obj EXCEPT ![t] = nullptr]
                /\ UNCHANGED <<it, invoked>>
           ELSE LET o == attemptCreate(list[it[t]], req[t])
                IN  /\ invoked' = [invoked EXCEPT ![t] = Append(@, it[t])]
                    /\ IF o # nullptr
                       THEN /\ obj' = [obj EXCEPT ![t] = o]
                            /\ pc' = [pc EXCEPT ![t] = "done"]
                            /\ UNCHANGED it
                       ELSE /\ it' = [u \in Threads |-> it[t] + 1]
                            /\ UNCHANGED <<pc, obj>>
    /\ UNCHANGED <<envVars, s_modules, constructed, m_moduleFactories, rm, req>>

\* One pass of the range-for loop of CreateObject: either the iterator is at
\* the end and the call returns nullptr, or the factory under the iterator
\* is asked, and its object is returned if it made one.
LoopStep(t) ==
    /\ pc[t] = "loop"
    /\ LET list == m_moduleFactories[rm[t]]
       IN  IF it[t] > Len(list)
           THEN /\ pc' = [pc EXCEPT ![t] = "done"]
                /\ obj' = [obj EXCEPT ![t] = nullptr]
                /\ UNCHANGED <<it, invoked>>
           ELSE LET o == attemptCreate(list[it[t]], req[t])
                IN  /\ invoked' = [invoked EXCEPT ![t] = Append(@, it[t])]
                    /\ IF o # nullptr
                       THEN /\ obj' = [obj EXCEPT ![t] = o]
                            /\ pc' = [pc EXCEPT ![t] = "done"]
                            /\ UNCHANGED it
                       ELSE /\ it' = [it EXCEPT ![t] = @ + 1]
                            /\ UNCHANGED <<pc, obj>>
    /\ UNCHANGED <<envVars, s_modules, constructed, m_moduleFactories, rm, req>>

\* The caller takes the returned value; the call's locals are gone.
Return(t) ==
    /\ pc[t] = "done"
    /\ pc' = [pc EXCEPT ![t] = "idle"]
    /\ rm' = [rm EXCEPT ![t] = 1]
    /\ req' = [req EXCEPT ![t] = <<"", "">>]
    /\ it' = [it EXCEPT ![t] = 1]
    /\ invoked' = [invoked EXCEPT ![t] = <<>>]
    /\ obj' = [obj EXCEPT ![t] = nullptr]
    /\ UNCHANGED <<envVars, s_modules, constructed, m_moduleFactories>>

\* CSpxResourceManager::CreateObject as one uninterrupted run from list
\* position i on: the value it returns and the positions it asks.
RECURSIVE CreateObjectFrom(_, _, _)
CreateObjectFrom(list, r, i) ==
    IF i > Len(list) THEN [obj |-> nullptr, invoked |-> <<>>]
    ELSE LET o == attemptCreate(list[i], r)
         IN  IF o # nullptr
             THEN [obj |-> o, invoked |-> <<i>>]
             ELSE LET rest == CreateObjectFrom(list, r, i + 1)
                  IN  [obj |-> rest.obj, invoked |-> <<i>> \o rest.invoked]

CreateObject(list, r) == CreateObjectFrom(list, r, 1)

\* ---------------------------------------------------------- specifications

\* What each module of the configuration does when asked: a loaded module
\* builds some of the given pairs.  A module whose library fails to load is
\* taken to be one that would have built every pair, so that nothing but
\* the failed load keeps it from creating objects.
EnvInit(p, pairs) ==
    /\ platform = p
    /\ loaded \in [NamesOf(p) -> BOOLEAN]
    /\ supports \in [NamesOf(p) -> SUBSET pairs]
    /\ \A n \in NamesOf(p) : ~loaded[n] => supports[n] = pairs

CallInit ==
    /\ pc = [t \in Threads |-> "idle"]
    /\ rm = [t \in Threads |-> 1]
    /\ req = [t \in Threads |-> <<"", "">>]
    /\ it = [t \in Threads |-> 1]
    /\ invoked = [t \in Threads |-> <<>>]
    /\ obj = [t \in Threads |-> nullptr]

Construct == \E m \in Managers : Constructor(m)
CallMT == \E t \in Threads, r \in RequestsMT : CallCreateObject(t, 1, r)
CallMain == \E m \in Managers, r \in Requests : CallCreateObject(1, m, r)
Loop == \E t \in Threads : LoopStep(t)
Ret == \E t \in Threads : Return(t)

\* Spec: the program from before any resource manager exists; managers are
\* constructed and one thread calls CreateObject on them.
Init ==
    /\ \E p \in Platforms : EnvInit(p, Supportable)
    /\ s_modules = <<>>
    /\ constructed = [m \in Managers |-> FALSE]
    /\ m_moduleFactories = [m \in Managers |-> <<>>]
    /\ CallInit

Next == Construct \/ CallMain \/ Loop \/ Ret

Spec == Init /\ [][Next]_vars

\* SpecMT: one resource manager, constructed before any thread uses it, and
\* NumThreads threads calling CreateObject on it concurrently.
InitMT ==
    /\ \E p \in Platforms : EnvInit(p, SupportableMT)
    /\ LET names == ModuleNames(platform)
           built == PushBackAll(<<>>, names, Len(names))
       IN  /\ s_modules = built.memo
           /\ m_moduleFactories = [m \in Managers |-> IF m = 1 THEN built.list ELSE <<>>]
    /\ constructed = [m \in Managers |-> m = 1]
    /\ CallInit

NextMT == CallMT \/ Loop \/ Ret

SpecMT == InitMT /\ [][NextMT]_vars

\* SpecList: hand-built lists of stub factories, of every length up to
\* MaxLen (duplicates and the empty list included), with CreateObject run
\* on them.
StubLists ==
    UNION {[1..n -> 1..Len(StubNames)] : n \in 0..MaxLen}

InitList ==
    /\ EnvInit(StubPlatform, Supportable)
    /\ s_modules = StubNames
    /\ constructed = [m \in Managers |-> m = 1]
    /\ \E l \in StubLists :
           m_moduleFactories = [m \in Managers |-> IF m = 1 THEN l ELSE <<>>]
    /\ CallInit

NextList == CallMain \/ Loop \/ Ret

SpecList == InitList /\ [][NextList]_vars

\* ------------------------------------------------------------- properties

\* The list the call of thread t walks.
ListOf(t) == m_moduleFactories[rm[t]]

\* The module name behind position i of manager m's list.
NameAt(m, i) == s_modules[m_moduleFactories[m][i]]

\* Whether the factory at position i of thread t's list creates the object
\* thread t asked for.
Creates(t, i) == attemptCreate(ListOf(t)[i], req[t]) # nullptr

\* The positions 1..n in order.
Upto(n) == [k \in 1..n |-> k]

TypeOK ==
    /\ platform \in Platforms \cup {StubPlatform}
    /\ pc \in [Threads -> {"idle", "loop", "done"}]
    /\ rm \in [Threads -> Managers]
    /\ \A t \in Threads : it[t] \in 1..(Len(ListOf(t)) + 1)

\* C1 -- priority correctness: when a call has returned, if the factory at
\* position i creates the requested object and no factory before i does,
\* the call returned exactly the object of the factory at position i.
PriorityCorrectness ==
    \A t \in Threads :
        pc[t] = "done" =>
            \A i \in 1..Len(ListOf(t)) :
                (Creates(t, i) /\ \A j \in 1..(i - 1) : ~Creates(t, j))
                    => obj[t] = attemptCreate(ListOf(t)[i], req[t])

\* The scenario of the specification: list [Mock(A/IA), Real(A/IA, B/IB)];
\* the call for B/IB returned the real factory's object.
PriorityWitness ==
    /\ platform = StubPlatform
    /\ m_moduleFactories[1] = <<1, 2>>
    /\ loaded["MockFactory"] /\ supports["MockFactory"] = {<<"A", "IA">>}
    /\ loaded["RealFactory"] /\ supports["RealFactory"] = Supportable
    /\ pc[1] = "done"
    /\ req[1] = <<"B", "IB">>
    /\ obj[1] = [factory |-> 2, className |-> "B", interfaceName |-> "IB"]

\* C2 -- short circuit: the factories a call has invoked are the positions
\* 1, 2, ..., k of its list, each once and in list order; every invoked
\* factory but the last created nothing; and a call that returned an object
\* returned the object of the last factory it invoked.
ShortCircuit ==
    \A t \in Threads :
        pc[t] # "idle" =>
            /\ invoked[t] = Upto(Len(invoked[t]))
            /\ Len(invoked[t]) <= Len(ListOf(t))
            /\ \A k \in 1..(Len(invoked[t]) - 1) : ~Creates(t, k)
            /\ (pc[t] = "done" /\ obj[t] # nullptr) =>
                   /\ Len(invoked[t]) >= 1
                   /\ obj[t] = attemptCreate(ListOf(t)[Len(invoked[t])], req[t])

\* A call returned the object of the second factory of a longer list whose
\* later factory creates the object too, and never asked that later factory.
ShortCircuitWitness ==
    /\ platform = StubPlatform
    /\ pc[1] = "done"
    /\ obj[1] # nullptr
    /\ invoked[1] = <<1, 2>>
    /\ Len(ListOf(1)) > 2
    /\ Creates(1, 3)

\* C3 -- exhaustion: a call returns the null object exactly when every
\* factory of its list creates nothing for the pair; so it does for the
\* empty list; and it returns it only after asking every entry.
ExhaustionCorrectness ==
    \A t \in Threads :
        pc[t] = "done" =>
            /\ obj[t] = nullptr <=> \A i \in 1..Len(ListOf(t)) : ~Creates(t, i)
            /\ Len(ListOf(t)) = 0 => obj[t] = nullptr
            /\ obj[t] = nullptr => invoked[t] = Upto(Len(ListOf(t)))

\* A call on a list of at least two factories, one of them loaded and able
\* to build some other pair, returned null after asking all of them.
ExhaustionWitness ==
    /\ platform = StubPlatform
    /\ pc[1] = "done"
    /\ obj[1] = nullptr
    /\ Len(ListOf(1)) >= 2
    /\ Len(invoked[1]) = Len(ListOf(1))
    /\ \E i \in 1..Len(ListOf(1)) :
           loaded[s_modules[ListOf(1)[i]]] /\ supports[s_modules[ListOf(1)[i]]] # {}

\* The empty list: the call returned null without asking anybody.
EmptyListWitness ==
    /\ platform = StubPlatform
    /\ pc[1] = "done"
    /\ ListOf(1) = <<>>
    /\ obj[1] = nullptr

\* C4 -- override correctness: on every platform the constructed list has
\* the mock module at its first position and nowhere else, and a call whose
\* request the mock module can create returns the mock module's object.
OverrideCorrectness ==
    /\ \A m \in Managers :
           constructed[m] =>
               /\ Len(m_moduleFactories[m]) >= 1
               /\ NameAt(m, 1) = MockName(platform)
               /\ \A i \in 2..Len(m_moduleFactories[m]) :
                      NameAt(m, i) # MockName(platform)
    /\ \A t \in Threads :
           (pc[t] = "done" /\ loaded[MockName(platform)]
                /\ req[t] \in supports[MockName(platform)]) =>
               /\ obj[t] # nullptr
               /\ s_modules[obj[t].factory] = MockName(platform)
               /\ obj[t].className = req[t][1]
               /\ obj[t].interfaceName = req[t][2]

\* The mock module and the core module both create the pair; the call
\* returned the mock's object.
OverrideWitness ==
    /\ platform \in Platforms
    /\ pc[1] = "done"
    /\ loaded[MockName(platform)] /\ req[1] \in supports[MockName(platform)]
    /\ loaded["carbon"] /\ req[1] \in supports["carbon"]
    /\ obj[1] # nullptr
    /\ s_modules[obj[1].factory] = MockName(platform)

\* C5 as stated -- on every platform the last entry of the constructed list
\* is the core module "carbon".
CarbonIsLast ==
    \A m \in Managers :
        constructed[m] =>
            /\ Len(m_moduleFactories[m]) >= 1
            /\ NameAt(m, Len(m_moduleFactories[m])) = "carbon"

\* C5 as amended -- on Linux and macOS the last entry of the constructed
\* list is "carbon"; on the default (Windows) branch "carbon" is the fourth
\* of five entries and "carbon-unidec.dll" follows it as the last one.  On
\* every platform "carbon" occurs exactly once in the list.
CarbonLastButUnidec ==
    \A m \in Managers :
        constructed[m] =>
            LET n == Len(m_moduleFactories[m])
            IN  /\ Cardinality({i \in 1..n : NameAt(m, i) = "carbon"}) = 1
                /\ NameAt(m, 4) = "carbon"
                /\ platform \in {"__linux__", "__MACH__"} => n = 4
                /\ platform = "default" =>
                       /\ n = 5
                       /\ NameAt(m, 5) = "carbon-unidec.dll"

\* A manager constructed on the default branch: five entries, carbon fourth.
CarbonWitness ==
    /\ platform = "default"
    /\ constructed[1]
    /\ Len(m_moduleFactories[1]) = 5
    /\ NameAt(1, 4) = "carbon"

\* C6 -- the list is immutable after construction: no step changes the list
\* of a constructed manager.
ListImmutable ==
    [][\A m \in Managers :
           constructed[m] => m_moduleFactories'[m] = m_moduleFactories[m]]_vars

\* A call that created an object and, before it, factories that created
\* nothing, on a constructed manager while another manager exists too.
ImmutableWitness ==
    /\ platform \in Platforms
    /\ constructed[1] /\ constructed[2]
    /\ pc[1] = "done"
    /\ obj[1] # nullptr
    /\ Len(invoked[1]) >= 2
    /\ Len(m_moduleFactories[rm[1]]) = Len(ModuleNames(platform))

\* C7 -- concurrent calls do not interfere: whatever the interleaving, a
\* call in progress has asked a prefix of the factories it asks when run
\* alone, and a call that returned has asked exactly those and returned the
\* value it returns when run alone.
NoInterference ==
    \A t \in Threads :
        LET alone == CreateObject(ListOf(t), req[t])
        IN  /\ pc[t] = "loop" =>
                /\ Len(invoked[t]) <= Len(alone.invoked)
                /\ invoked[t] = SubSeq(alone.invoked, 1, Len(invoked[t]))
                /\ it[t] = Len(invoked[t]) + 1
            /\ pc[t] = "done" =>
                /\ invoked[t] = alone.invoked
                /\ obj[t] = alone.obj

\* Two calls are inside the loop at once, at different positions, asking for
\* different pairs.
InterferenceWitness ==
    /\ platform \in Platforms
    /\ pc[1] = "loop" /\ pc[2] = "loop"
    /\ rm[1] = rm[2]
    /\ req[1] # req[2]
    /\ it[1] > 1 /\ it[2] > it[1]

\* C8 -- determinism: two calls on the same manager with the same class and
\* interface names return the same value, produced at the same list
\* position (or both null), whatever calls ran in between.
Determinism ==
    \A t, u \in Threads :
        (pc[t] = "done" /\ pc[u] = "done" /\ rm[t] = rm[u] /\ req[t] = req[u]) =>
            /\ obj[t] = obj[u]
            /\ Len(invoked[t]) = Len(invoked[u])

\* Two calls with the same names both returned an object made by a factory
\* that is not the first of the list.
DeterminismWitness ==
    /\ platform \in Platforms
    /\ pc[1] = "done" /\ pc[2] = "done"
    /\ rm[1] = rm[2] /\ req[1] = req[2]
    /\ obj[1] # nullptr /\ obj[2] # nullptr
    /\ Len(invoked[1]) >= 2

\* C9 -- an unavailable module: a list entry whose module failed to load
\* creates nothing, is asked at most once per call, and does not end the
\* search: if a later entry is the first that creates the object, the call
\* returns that entry's object; a call ends with a value, null or not, and
\* nothing else.
UnavailableIsUnsupporting ==
    \A t \in Threads :
        pc[t] # "idle" =>
            \A i \in 1..Len(ListOf(t)) :
                ~loaded[s_modules[ListOf(t)[i]]] =>
                    /\ ~Creates(t, i)
                    /\ Cardinality({k \in 1..Len(invoked[t]) : invoked[t][k] = i}) <= 1
                    /\ pc[t] = "done" =>
                           \A j \in (i + 1)..Len(ListOf(t)) :
                               (Creates(t, j) /\ \A k \in 1..(j - 1) : ~Creates(t, k))
                                   => /\ obj[t] = attemptCreate(ListOf(t)[j], req[t])
                                      /\ i \in {invoked[t][k] : k \in 1..Len(invoked[t])}

\* The mock module failed to load; the call asked it, went on, and returned
\* the object of a later module.
UnavailableWitness ==
    /\ platform \in Platforms
    /\ pc[1] = "done"
    /\ ~loaded[MockName(platform)]
    /\ req[1] \in supports[MockName(platform)]
    /\ obj[1] # nullptr
    /\ invoked[1][1] = 1
    /\ obj[1].factory = ListOf(1)[Len(invoked[1])]
    /\ Len(invoked[1]) >= 2

\* C10 -- order preservation: two managers constructed under one platform
\* configuration have lists of equal length, whose entries at each position
\* were resolved from the same name (the platform's name at that position)
\* and are the same module handle.
OrderPreserved ==
    \A m, n \in Managers :
        (constructed[m] /\ constructed[n]) =>
            /\ Len(m_moduleFactories[m]) = Len(m_moduleFactories[n])
            /\ Len(m_moduleFactories[m]) = Len(ModuleNames(platform))
            /\ \A i \in 1..Len(m_moduleFactories[m]) :
                   /\ NameAt(m, i) = ModuleNames(platform)[i]
                   /\ NameAt(n, i) = ModuleNames(platform)[i]
                   /\ m_moduleFactories[m][i] = m_moduleFactories[n][i]

\* Two managers have been constructed.
OrderWitness ==
    /\ platform \in Platforms
    /\ constructed[1] /\ constructed[2]
    /\ Len(m_moduleFactories[1]) >= 4
    /\ Len(m_moduleFactories[2]) >= 4

====
